---- MODULE Spec2Model ----
(***************************************************************************)
(* Model of the detection-evaluation core of src/infer.py: get_iou and     *)
(* compute_map.                                                            *)
(*                                                                         *)
(* Conventions.                                                            *)
(*  - Python lists are TLA+ sequences, so every index is the Python index  *)
(*    plus one (image 0 of the code is image 1 here).                      *)
(*  - A Python dict is a function whose DOMAIN is the set of its keys.     *)
(*  - Class labels are integers (the dataset's class ids), so that         *)
(*    sorted(gt_labels) is the ascending order.                            *)
(*  - Box coordinates and scores are integers.                             *)
(*  - An IoU-like real is a record [n, d, e] standing for the number       *)
(*    n / (d + e * 1E-6); comparisons of such numbers are exact as long as *)
(*    the integers involved stay below 10^6.                               *)
(*  - A precision, recall or AP value is an exact fraction <<n, d>> in     *)
(*    lowest terms; <<0, 0>> stands for numpy's nan.                       *)
(***************************************************************************)
EXTENDS Integers, Sequences, FiniteSets, TLC

\* ------------------------------------------------------------------------
\* Bounds of the model
\* ------------------------------------------------------------------------
MaxImages == 2

MaxDets == 2

MaxGts == 2

MaxCoord == 2

Labels == {1, 2}

Scores == {1, 2}

Methods == {"area", "interp", "other"}

\* Boxes handed to compute_map: two overlapping boxes (IoU 2/3) as ground
\* truth; the first of them and a box disjoint from both as detections.
BoxA == <<0, 0, 2, 2>>

BoxB == <<0, 0, 3, 2>>

BoxC == <<4, 4, 5, 5>>

GtBoxes == {BoxA, BoxB}

DetBoxes == {BoxA, BoxC}

\* Boxes handed to get_iou alone: every box of the coordinate grid,
\* zero-width, zero-height and inverted ones included.
GridBoxes == {<<x1, y1, x2, y2>> : x1 \in 0..MaxCoord, y1 \in 0..MaxCoord, x2 \in 0..MaxCoord, y2 \in 0..MaxCoord}

\* ------------------------------------------------------------------------
\* Numbers
\* ------------------------------------------------------------------------
Max2(a, b) == IF a >= b THEN a ELSE b

Min2(a, b) == IF a <= b THEN a ELSE b

\* x < y for x = n/(d + e*1E-6), y likewise: the sign of
\* (x.n*y.d - y.n*x.d) + 1E-6 * (x.n*y.e - y.n*x.e), the second term being
\* smaller than 1 in absolute value.
EpsLess(x, y) ==
    LET X == x.n * y.d - y.n * x.d
        Y == x.n * y.e - y.n * x.e
    IN  X < 0 \/ (X = 0 /\ Y < 0)

RECURSIVE GCD(_, _)
GCD(a, b) == IF b = 0 THEN a ELSE GCD(b, a % b)

Abs(a) == IF a < 0 THEN -a ELSE a

Frac(n, d) ==
    LET g == GCD(Abs(n), Abs(d))
    IN  IF g = 0 THEN <<0, 1>> ELSE <<n \div g, d \div g>>

FAdd(x, y) == Frac(x[1] * y[2] + y[1] * x[2], x[2] * y[2])

FSub(x, y) == Frac(x[1] * y[2] - y[1] * x[2], x[2] * y[2])

FMul(x, y) == Frac(x[1] * y[1], x[2] * y[2])

FLess(x, y) == x[1] * y[2] < y[1] * x[2]

FMax(x, y) == IF FLess(x, y) THEN y ELSE x

Zero == <<0, 1>>

One == <<1, 1>>

NaN == <<0, 0>>

\* 1 / np.finfo(np.float32).eps = 2^23
Float32EpsInv == 8388608

\* tp / np.maximum(den, eps) for integers tp >= 0, den >= 0
GuardedDiv(t, den) == IF den > 0 THEN Frac(t, den) ELSE Frac(t * Float32EpsInv, 1)

\* ------------------------------------------------------------------------
\* get_iou
\* ------------------------------------------------------------------------
\* The literal 0.0 and the literal -1 as IoU-like reals
IouZero == [n |-> 0, d |-> 1, e |-> 0]

IouMinusOne == [n |-> -1, d |-> 1, e |-> 0]

\* Lines 16-33 with the union taken as the sum of the two areas
get_iou_SumOfAreas(det, gt) ==
    LET x_left == Max2(det[1], gt[1])
        y_top == Max2(det[2], gt[2])
        x_right == Min2(det[3], gt[3])
        y_bottom == Min2(det[4], gt[4])
        area_intersection == (x_right - x_left) * (y_bottom - y_top)
        det_area == (det[3] - det[1]) * (det[4] - det[2])
        gt_area == (gt[3] - gt[1]) * (gt[4] - gt[2])
    IN  IF x_right < x_left \/ y_bottom < y_top
        THEN IouZero
        ELSE [n |-> area_intersection, d |-> det_area + gt_area, e |-> 1]

get_iou(det, gt) ==
    LET x_left == Max2(det[1], gt[1])
        y_top == Max2(det[2], gt[2])
        x_right == Min2(det[3], gt[3])
        y_bottom == Min2(det[4], gt[4])
        area_intersection == (x_right - x_left) * (y_bottom - y_top)
        det_area == (det[3] - det[1]) * (det[4] - det[2])
        gt_area == (gt[3] - gt[1]) * (gt[4] - gt[2])
    IN  IF x_right < x_left \/ y_bottom < y_top
        THEN IouZero
        ELSE [n |-> area_intersection, d |-> det_area + gt_area - area_intersection, e |-> 1]

\* ------------------------------------------------------------------------
\* compute_map: pure parts
\* ------------------------------------------------------------------------
\* The keys of every image's ground-truth dict
GtLabelSet(gts) == UNION {DOMAIN gts[i] : i \in 1..Len(gts)}

SetMin(S) == CHOOSE x \in S : \A y \in S : x <= y

\* sorted(gt_labels)
RECURSIVE SortedSeq(_)
SortedSeq(S) == IF S = {} THEN <<>> ELSE <<SetMin(S)>> \o SortedSeq(S \ {SetMin(S)})

\* [[im_idx, d] for d in im_dets[label]] for one image
TagDets(im_idx, dets) == [k \in 1..Len(dets) |-> <<im_idx, dets[k]>>]

\* The comprehension of lines 64-67 over images 1..n
RECURSIVE ClsDetsUpTo(_, _, _)
ClsDetsUpTo(dets, label, n) ==
    IF n = 0 THEN <<>>
    ELSE ClsDetsUpTo(dets, label, n - 1) \o
         (IF label \in DOMAIN dets[n] THEN TagDets(n, dets[n][label]) ELSE <<>>)

\* The sort key of line 80
SortKey(k) == -k[2][5]

\* An unstable insertion: x put before the elements of equal key
RECURSIVE InsertSorted_BeforeEquals(_, _)
InsertSorted_BeforeEquals(s, x) ==
    IF s = <<>> THEN <<x>>
    ELSE IF SortKey(Head(s)) >= SortKey(x) THEN <<x>> \o s
    ELSE <<Head(s)>> \o InsertSorted_BeforeEquals(Tail(s), x)

\* x put behind every element whose key is not larger than its own
RECURSIVE InsertSorted(_, _)
InsertSorted(s, x) ==
    IF s = <<>> THEN <<x>>
    ELSE IF SortKey(Head(s)) > SortKey(x) THEN <<x>> \o s
    ELSE <<Head(s)>> \o InsertSorted(Tail(s), x)

\* sorted(cls_dets, key=...): a stable sort
RECURSIVE StableSort(_)
StableSort(s) ==
    IF s = <<>> THEN <<>>
    ELSE InsertSorted(StableSort(SubSeq(s, 1, Len(s) - 1)), s[Len(s)])

ClsDets(dets, label) == StableSort(ClsDetsUpTo(dets, label, Len(dets)))

\* Some image's ground-truth dict has no key label (line 83 raises KeyError)
MissingKey(gts, label) == \E i \in 1..Len(gts) : label \notin DOMAIN gts[i]

InitMatched(gts, label) == [i \in 1..Len(gts) |-> [k \in 1..Len(gts[i][label]) |-> FALSE]]

\* s[1] + ... + s[n]
RECURSIVE SumTo(_, _)
SumTo(s, n) == IF n = 0 THEN 0 ELSE SumTo(s, n - 1) + s[n]

SumSeq(s) == SumTo(s, Len(s))

\* [v] * n
RECURSIVE Repeat(_, _)
Repeat(v, n) == IF n = 0 THEN <<>> ELSE Append(Repeat(v, n - 1), v)

NumGts(gts, label) == SumSeq([i \in 1..Len(gts) |-> Len(gts[i][label])])

\* The scan of lines 93-101 with >= for >: the last box of maximum IoU wins
RECURSIVE ScanGts_LastOfTies(_, _, _, _, _)
ScanGts_LastOfTies(box, im_gts, k, max_iou_found, max_iou_gt_idx) ==
    IF k > Len(im_gts) THEN [iou |-> max_iou_found, idx |-> max_iou_gt_idx]
    ELSE LET gt_box_iou == get_iou(box, im_gts[k])
         IN  IF ~EpsLess(gt_box_iou, max_iou_found)
             THEN ScanGts_LastOfTies(box, im_gts, k + 1, gt_box_iou, k)
             ELSE ScanGts_LastOfTies(box, im_gts, k + 1, max_iou_found, max_iou_gt_idx)

\* The scan of lines 93-101 from position k on; idx 0 is Python's -1
RECURSIVE ScanGts(_, _, _, _, _)
ScanGts(box, im_gts, k, max_iou_found, max_iou_gt_idx) ==
    IF k > Len(im_gts) THEN [iou |-> max_iou_found, idx |-> max_iou_gt_idx]
    ELSE LET gt_box_iou == get_iou(box, im_gts[k])
         IN  IF EpsLess(max_iou_found, gt_box_iou)
             THEN ScanGts(box, im_gts, k + 1, gt_box_iou, k)
             ELSE ScanGts(box, im_gts, k + 1, max_iou_found, max_iou_gt_idx)

BestGt(det_pred, im_gts) == ScanGts(SubSeq(det_pred, 1, 4), im_gts, 1, IouMinusOne, 0)

\* Line 103 without its second test: a matched box is taken again
IsFP_ThresholdOnly(best, thr, matched_im) == EpsLess(best.iou, thr)

\* The test of line 103
IsFP(best, thr, matched_im) == EpsLess(best.iou, thr) \/ matched_im[best.idx]

\* Lines 90-108 without line 108: a TP leaves its box unmatched
MatchOne_NoMark(st, k, dets_sorted, gts, label, thr) ==
    LET im_idx == dets_sorted[k][1]
        det_pred == dets_sorted[k][2]
        best == BestGt(det_pred, gts[im_idx][label])
    IN  IF IsFP(best, thr, st.gt_matched[im_idx])
        THEN [st EXCEPT !.fp[k] = 1]
        ELSE [st EXCEPT !.tp[k] = 1]

\* Lines 90-108 on the class's k-th detection; st is [gt_matched, tp, fp]
MatchOne(st, k, dets_sorted, gts, label, thr) ==
    LET im_idx == dets_sorted[k][1]
        det_pred == dets_sorted[k][2]
        best == BestGt(det_pred, gts[im_idx][label])
    IN  IF IsFP(best, thr, st.gt_matched[im_idx])
        THEN [st EXCEPT !.fp[k] = 1]
        ELSE [st EXCEPT !.tp[k] = 1, !.gt_matched[im_idx][best.idx] = TRUE]

\* Lines 83-87: the state the detection loop starts in
MatchStart(n_dets, gts, label) ==
    [gt_matched |-> InitMatched(gts, label),
     tp |-> Repeat(0, n_dets),
     fp |-> Repeat(0, n_dets)]

\* np.cumsum
CumSum(s) == [i \in 1..Len(s) |-> SumTo(s, i)]

\* Line 114
Recalls(tp, num_gts) ==
    LET tpc == CumSum(tp)
    IN  [i \in 1..Len(tp) |-> GuardedDiv(tpc[i], num_gts)]

\* Line 115
Precisions(tp, fp) ==
    LET tpc == CumSum(tp)
        fpc == CumSum(fp)
    IN  [i \in 1..Len(tp) |-> GuardedDiv(tpc[i], tpc[i] + fpc[i])]

\* The backward scan of lines 124-125, position i still to be visited
RECURSIVE Envelope(_, _)
Envelope(p, i) ==
    IF i < 2 THEN p
    ELSE Envelope([p EXCEPT ![i - 1] = FMax(p[i - 1], p[i])], i - 1)

RECURSIVE FSum(_)
FSum(s) == IF s = <<>> THEN Zero ELSE FAdd(Head(s), FSum(Tail(s)))

\* Lines 118-129
AreaAP(recalls, precisions) ==
    LET r == <<Zero>> \o recalls \o <<One>>
        p0 == <<Zero>> \o precisions \o <<Zero>>
        p == Envelope(p0, Len(p0))
    IN  FSum([k \in 1..(Len(r) - 1) |->
                 IF r[k + 1] # r[k] THEN FMul(FSub(r[k + 1], r[k]), p[k + 1]) ELSE Zero])

RECURSIVE FMaxSeq(_)
FMaxSeq(s) == IF Len(s) = 1 THEN s[1] ELSE FMax(Head(s), FMaxSeq(Tail(s)))

\* precisions[recalls >= interp_pt], as a sequence
RECURSIVE Qualifying(_, _, _)
Qualifying(recalls, precisions, pt) ==
    IF recalls = <<>> THEN <<>>
    ELSE (IF FLess(Head(recalls), pt) THEN <<>> ELSE <<Head(precisions)>>) \o
         Qualifying(Tail(recalls), Tail(precisions), pt)

\* Lines 131-139 with 1.0 where no point qualifies
InterpAP_EmptyIsOne(recalls, precisions) ==
    FMul(FSum([t \in 1..11 |->
                  LET prec_interp_pt == Qualifying(recalls, precisions, <<t - 1, 10>>)
                  IN  IF Len(prec_interp_pt) > 0 THEN FMaxSeq(prec_interp_pt) ELSE One]),
         <<1, 11>>)

\* Lines 131-139; the 11 points of np.arange(0, 1 + 1E-3, 0.1) are t/10
InterpAP(recalls, precisions) ==
    FMul(FSum([t \in 1..11 |->
                  LET prec_interp_pt == Qualifying(recalls, precisions, <<t - 1, 10>>)
                  IN  IF Len(prec_interp_pt) > 0 THEN FMaxSeq(prec_interp_pt) ELSE Zero]),
         <<1, 11>>)

KnownMethod(m) == m \in {"area", "interp"}

\* Lines 117-139 for a known method
ClassAP(tp, fp, n_gts, m) ==
    IF m = "area" THEN AreaAP(Recalls(tp, n_gts), Precisions(tp, fp))
    ELSE InterpAP(Recalls(tp, n_gts), Precisions(tp, fp))

\* Lines 142-143 without the test: every class's AP enters the mean
AppendDefined_Always(ap_list, ap, n_gts) == Append(ap_list, ap)

\* Lines 142-143
AppendDefined(ap_list, ap, n_gts) == IF n_gts > 0 THEN Append(ap_list, ap) ELSE ap_list

\* all_aps[label] = v
SetAP(d, label, v) == [l \in DOMAIN d \cup {label} |-> IF l = label THEN v ELSE d[l]]

\* Lines 142-146
RecordAP(d, label, ap, n_gts) == SetAP(d, label, IF n_gts > 0 THEN ap ELSE NaN)

\* Line 148 for a non-empty list
MeanOf(s) == FMul(FSum(s), <<1, Len(s)>>)

\* The detection loop of lines 90-108 from position k to the end
RECURSIVE MatchFrom(_, _, _, _, _, _)
MatchFrom(st, k, dets_sorted, gts, label, thr) ==
    IF k > Len(dets_sorted) THEN st
    ELSE MatchFrom(MatchOne(st, k, dets_sorted, gts, label, thr), k + 1, dets_sorted, gts, label, thr)

\* The body of the class loop, lines 64-139, as a function of the arguments
\* (for arguments on which it raises nothing)
ClassResult(dets, gts, label, thr, m) ==
    LET dets_sorted == ClsDets(dets, label)
        st == MatchFrom(MatchStart(Len(dets_sorted), gts, label), 1, dets_sorted, gts, label, thr)
    IN  ClassAP(st.tp, st.fp, NumGts(gts, label), m)

\* The class loop of lines 62-146 from position k on; acc is [aps, all_aps]
RECURSIVE ClassLoop(_, _, _, _, _, _, _)
ClassLoop(acc, k, labels, dets, gts, thr, m) ==
    IF k > Len(labels) THEN acc
    ELSE LET ap == ClassResult(dets, gts, labels[k], thr, m)
             n == NumGts(gts, labels[k])
         IN  ClassLoop([aps |-> AppendDefined(acc.aps, ap, n),
                        all_aps |-> RecordAP(acc.all_aps, labels[k], ap, n)],
                       k + 1, labels, dets, gts, thr, m)

\* compute_map as a function of its arguments, for arguments on which it
\* returns
compute_map(dets, gts, thr, m) ==
    LET acc == ClassLoop([aps |-> <<>>, all_aps |-> <<>>], 1, SortedSeq(GtLabelSet(gts)), dets, gts, thr, m)
    IN  <<MeanOf(acc.aps), acc.all_aps>>

\* ------------------------------------------------------------------------
\* Arguments of a call
\* ------------------------------------------------------------------------
\* A detection [x1, y1, x2, y2, score]
DetItems == {b \o <<sc>> : b \in DetBoxes, sc \in Scores}

\* iou_threshold: the default of line 36
Thresholds == {[n |-> 1, d |-> 2, e |-> 0]}

\* n images, each an empty dict
EmptyDicts(n) == [i \in 1..n |-> <<>>]

\* maps[im][label].append(item), the list being created when it is missing
PutItem(maps, im, label, item) ==
    LET m == maps[im]
    IN  [maps EXCEPT ![im] =
            [l \in DOMAIN m \cup {label} |->
                IF l = label
                THEN (IF l \in DOMAIN m THEN Append(m[l], item) ELSE <<item>>)
                ELSE m[l]]]

\* Every list of n dicts holding k items in all
RECURSIVE Filled(_, _, _)
Filled(n, k, Items) ==
    IF k = 0 THEN {EmptyDicts(n)}
    ELSE {PutItem(s, im, l, it) : s \in Filled(n, k - 1, Items), im \in 1..n, l \in Labels, it \in Items}

\* The keys K added to dict m with empty lists
WithKeys(m, K) == [l \in DOMAIN m \cup K |-> IF l \in DOMAIN m THEN m[l] ELSE <<>>]

\* Each image's dict either as it is or with an (empty) list for every label
Densified(s) ==
    {[i \in 1..Len(s) |-> WithKeys(s[i], IF i \in D THEN Labels ELSE {})] : D \in SUBSET (1..Len(s))}

DetInputs == UNION {Filled(n, k, DetItems) : n \in 0..MaxImages, k \in 0..MaxDets}

GtInputs == UNION {Densified(s) : s \in UNION {Filled(n, k, GtBoxes) : n \in 0..MaxImages, k \in 0..MaxGts}}

\* ------------------------------------------------------------------------
\* State
\* ------------------------------------------------------------------------
VARIABLES
    det_boxes,      \* argument: per image, dict label -> list of detections
    gt_boxes,       \* argument: per image, dict label -> list of boxes
    iou_threshold,  \* argument
    method,         \* argument
    pc,             \* "call", "class", "match", "mean", "returned", "raised"
    exc,            \* the exception raised, "none" before
    gt_labels,      \* sorted labels
    idx,            \* position of the class loop in gt_labels
    cls_dets,       \* the class's detections <<im_idx, det>>, sorted
    gt_matched,     \* per image, per ground-truth box of the class
    num_gts,
    tp,
    fp,
    det_idx,        \* position of the detection loop in cls_dets
    aps,
    all_aps,
    mean_ap,
    iou_args,       \* get_iou called on its own: the arguments <<det, gt>>
    iou_ret         \* and what it returned

vars == <<det_boxes, gt_boxes, iou_threshold, method, pc, exc, gt_labels, idx, cls_dets,
          gt_matched, num_gts, tp, fp, det_idx, aps, all_aps, mean_ap, iou_args, iou_ret>>

args == <<det_boxes, gt_boxes, iou_threshold, method>>

iouVars == <<iou_args, iou_ret>>

classVars == <<cls_dets, gt_matched, num_gts, tp, fp, det_idx>>

Locals ==
    /\ pc = "call"
    /\ exc = "none"
    /\ gt_labels = <<>>
    /\ idx = 0
    /\ cls_dets = <<>>
    /\ gt_matched = <<>>
    /\ num_gts = 0
    /\ tp = <<>>
    /\ fp = <<>>
    /\ det_idx = 0
    /\ aps = <<>>
    /\ all_aps = <<>>
    /\ mean_ap = NaN

\* compute_map(det_boxes, gt_boxes, iou_threshold, method) has just been called
Init ==
    /\ det_boxes \in DetInputs
    /\ gt_boxes \in GtInputs
    /\ iou_threshold \in Thresholds
    /\ method \in Methods
    /\ Locals
    /\ iou_args = <<>>
    /\ iou_ret = IouZero

Raise(e) ==
    /\ pc' = "raised"
    /\ exc' = e

\* Lines 57-61
Enter ==
    /\ pc = "call"
    /\ gt_labels' = SortedSeq(GtLabelSet(gt_boxes))
    /\ all_aps' = <<>>
    /\ aps' = <<>>
    /\ idx' = 1
    /\ pc' = IF GtLabelSet(gt_boxes) = {} THEN "mean" ELSE "class"
    /\ UNCHANGED <<args, exc, classVars, mean_ap, iouVars>>

\* Lines 62-87: the head of the class loop
BeginClass ==
    /\ pc = "class"
    /\ LET label == gt_labels[idx]
       IN  /\ cls_dets' = ClsDets(det_boxes, label)
           /\ IF MissingKey(gt_boxes, label)
              THEN /\ Raise("KeyError")
                   /\ UNCHANGED <<gt_matched, num_gts, tp, fp, det_idx>>
              ELSE /\ gt_matched' = MatchStart(Len(cls_dets'), gt_boxes, label).gt_matched
                   /\ num_gts' = NumGts(gt_boxes, label)
                   /\ tp' = MatchStart(Len(cls_dets'), gt_boxes, label).tp
                   /\ fp' = MatchStart(Len(cls_dets'), gt_boxes, label).fp
                   /\ det_idx' = 1
                   /\ pc' = "match"
                   /\ exc' = exc
    /\ UNCHANGED <<args, gt_labels, idx, aps, all_aps, mean_ap, iouVars>>

\* Lines 90-108: one detection
MatchDet ==
    /\ pc = "match"
    /\ det_idx <= Len(cls_dets)
    /\ LET label == gt_labels[idx]
           im_idx == cls_dets[det_idx][1]
       IN  IF im_idx > Len(gt_boxes)
           THEN /\ Raise("IndexError")
                /\ UNCHANGED <<gt_matched, tp, fp, det_idx>>
           ELSE LET st == MatchOne([gt_matched |-> gt_matched, tp |-> tp, fp |-> fp],
                                   det_idx, cls_dets, gt_boxes, label, iou_threshold)
                IN  /\ gt_matched' = st.gt_matched
                    /\ tp' = st.tp
                    /\ fp' = st.fp
                    /\ det_idx' = det_idx + 1
                    /\ UNCHANGED <<pc, exc>>
    /\ UNCHANGED <<args, gt_labels, idx, cls_dets, num_gts, aps, all_aps, mean_ap, iouVars>>

\* Lines 109-146: the class's AP
FinishClass ==
    /\ pc = "match"
    /\ det_idx > Len(cls_dets)
    /\ tp' = CumSum(tp)
    /\ fp' = CumSum(fp)
    /\ LET label == gt_labels[idx]
       IN  IF ~KnownMethod(method)
           THEN /\ Raise("ValueError")
                /\ UNCHANGED <<aps, all_aps, idx>>
           ELSE /\ aps' = AppendDefined(aps, ClassAP(tp, fp, num_gts, method), num_gts)
                /\ all_aps' = RecordAP(all_aps, label, ClassAP(tp, fp, num_gts, method), num_gts)
                /\ idx' = idx + 1
                /\ pc' = IF idx = Len(gt_labels) THEN "mean" ELSE "class"
                /\ exc' = exc
    /\ UNCHANGED <<args, gt_labels, cls_dets, gt_matched, num_gts, det_idx, mean_ap, iouVars>>

\* Lines 148-149
Mean ==
    /\ pc = "mean"
    /\ IF Len(aps) = 0
       THEN /\ Raise("ZeroDivisionError")
            /\ mean_ap' = mean_ap
       ELSE /\ mean_ap' = MeanOf(aps)
            /\ pc' = "returned"
            /\ exc' = exc
    /\ UNCHANGED <<args, gt_labels, idx, classVars, aps, all_aps, iouVars>>

Next == Enter \/ BeginClass \/ MatchDet \/ FinishClass \/ Mean

Spec == Init /\ [][Next]_vars

\* ------------------------------------------------------------------------
\* get_iou called on its own
\* ------------------------------------------------------------------------
InitIou ==
    /\ det_boxes = <<>>
    /\ gt_boxes = <<>>
    /\ iou_threshold \in Thresholds
    /\ method = "area"
    /\ Locals
    /\ iou_args = <<>>
    /\ iou_ret = IouZero

\* Lines 16-33: one call, on any two boxes of the grid
CallGetIou ==
    /\ iou_args = <<>>
    /\ \E det \in GridBoxes, gt \in GridBoxes :
          /\ iou_args' = <<det, gt>>
          /\ iou_ret' = get_iou(det, gt)
    /\ UNCHANGED <<args, pc, exc, gt_labels, idx, classVars, aps, all_aps, mean_ap>>

NextIou == CallGetIou

SpecIou == InitIou /\ [][NextIou]_vars

\* ------------------------------------------------------------------------
\* Vocabulary of the properties (meaningful while pc = "match")
\* ------------------------------------------------------------------------
CurLabel == gt_labels[idx]

DetImage(k) == cls_dets[k][1]

DetBox(k) == SubSeq(cls_dets[k][2], 1, 4)

DetScore(k) == cls_dets[k][2][5]

\* The ground-truth boxes of detection k's image and class
ImGts(k) == gt_boxes[DetImage(k)][CurLabel]

IouWith(k, j) == get_iou(DetBox(k), ImGts(k)[j])

\* IoU >= iou_threshold
Reaches(k, j) == ~EpsLess(IouWith(k, j), iou_threshold)

\* The boxes of maximum IoU with detection k, matched or not
BestSet(k) ==
    {j \in 1..Len(ImGts(k)) : \A j2 \in 1..Len(ImGts(k)) : ~EpsLess(IouWith(k, j), IouWith(k, j2))}

\* The entries <<image, box>> of a match table
Slots(t) == UNION {{<<i, j>> : j \in 1..Len(t[i])} : i \in 1..Len(t)}

MatchedSlots(t) == {sl \in Slots(t) : t[sl[1]][sl[2]]}

TPs(flags) == {k \in 1..Len(flags) : flags[k] = 1}

AllProcessed == pc = "match" /\ det_idx > Len(cls_dets)

\* ------------------------------------------------------------------------
\* C1
\* ------------------------------------------------------------------------
C1_Step ==
    (pc = "match" /\ det_idx <= Len(cls_dets) /\ DetImage(det_idx) <= Len(gt_boxes)) =>
    LET k == det_idx
        im == DetImage(k)
        best == BestSet(k)
        below == best = {} \/ \A j \in best : ~Reaches(k, j)
        taken == \E j \in best : gt_matched[im][j]
    IN  /\ pc' = "match"
        /\ det_idx' = k + 1
        /\ \A i \in (1..Len(cls_dets)) \ {k} : tp'[i] = tp[i] /\ fp'[i] = fp[i]
        /\ \/ /\ tp'[k] = 0
              /\ fp'[k] = 1
              /\ below \/ taken
              /\ gt_matched' = gt_matched
           \/ /\ tp'[k] = 1
              /\ fp'[k] = 0
              /\ ~below
              /\ \E j \in best :
                    /\ ~gt_matched[im][j]
                    /\ gt_matched' = [gt_matched EXCEPT ![im][j] = TRUE]

\* C1: every step of the detection loop classifies the detection at hand,
\* and only it, as exactly one of TP or FP: the boxes of maximum IoU are
\* sought among all ground-truth boxes of the detection's image and class,
\* matched or not; the detection is FP (and the match table is left alone)
\* when there is no box, the maximum is below iou_threshold or the box of
\* maximum IoU is already matched; otherwise it is TP and that box becomes
\* matched. A box that is not of maximum IoU is never matched instead.
C1_GreedyNoFallback == [][C1_Step]_vars

\* The detection just processed is FP because its one best box was taken,
\* although another, unmatched box of its image reaches the threshold.
C1_Witness ==
    /\ pc = "match"
    /\ det_idx >= 2
    /\ det_idx - 1 <= Len(cls_dets)
    /\ LET k == det_idx - 1
       IN  /\ fp[k] = 1
           /\ tp[k] = 0
           /\ \E j \in BestSet(k) :
                 /\ BestSet(k) = {j}
                 /\ Reaches(k, j)
                 /\ gt_matched[DetImage(k)][j]
                 /\ \E j2 \in (1..Len(ImGts(k))) \ {j} :
                       Reaches(k, j2) /\ ~gt_matched[DetImage(k)][j2]

\* ------------------------------------------------------------------------
\* C2
\* ------------------------------------------------------------------------
C2_Inv ==
    pc = "match" =>
        /\ Len(gt_matched) = Len(gt_boxes)
        /\ \A i \in 1..Len(gt_boxes) : Len(gt_matched[i]) = Len(gt_boxes[i][CurLabel])
        /\ num_gts = Cardinality(Slots(gt_matched))
        /\ Cardinality(TPs(tp)) = Cardinality(MatchedSlots(gt_matched))
        /\ Cardinality(TPs(tp)) <= num_gts

C2_Step ==
    /\ (pc = "class" /\ pc' = "match") => MatchedSlots(gt_matched') = {}
    /\ (pc = "match" /\ pc' = "match") =>
          /\ MatchedSlots(gt_matched) \subseteq MatchedSlots(gt_matched')
          /\ Cardinality(MatchedSlots(gt_matched') \ MatchedSlots(gt_matched)) <= 1
          /\ Cardinality(TPs(tp')) - Cardinality(TPs(tp)) =
                Cardinality(MatchedSlots(gt_matched') \ MatchedSlots(gt_matched))

\* C2: while a class is evaluated the match table has one entry per
\* ground-truth box of the class, all false when the class begins; an entry
\* only changes from false to true, one entry per TP detection, so the TP
\* detections are as many as the matched boxes and never exceed num_gts.
C2_MatchedAtMostOnce == [](C2_Inv) /\ [][C2_Step]_vars

\* The only box of the class is matched, and a detection that reaches it
\* has been turned down.
C2_Witness ==
    /\ AllProcessed
    /\ num_gts = 1
    /\ Cardinality(TPs(tp)) = 1
    /\ \E k \in 1..Len(cls_dets) :
          /\ fp[k] = 1
          /\ Len(ImGts(k)) = 1
          /\ Reaches(k, 1)

\* ------------------------------------------------------------------------
\* C3
\* ------------------------------------------------------------------------
\* The places <<image, position>> of the class's detections in det_boxes
InputPlaces ==
    UNION {{<<im, q>> : q \in 1..Len(det_boxes[im][CurLabel])} :
              im \in {i \in 1..Len(det_boxes) : CurLabel \in DOMAIN det_boxes[i]}}

PlaceBefore(a, b) == a[1] < b[1] \/ (a[1] = b[1] /\ a[2] < b[2])

C3_Order ==
    pc = "match" =>
        /\ Len(cls_dets) = Cardinality(InputPlaces)
        /\ \E f \in [1..Len(cls_dets) -> InputPlaces] :
              /\ \A i \in 1..Len(cls_dets) :
                    cls_dets[i] = <<f[i][1], det_boxes[f[i][1]][CurLabel][f[i][2]]>>
              /\ \A i, j \in 1..Len(cls_dets) :
                    i < j => \/ DetScore(i) > DetScore(j)
                             \/ DetScore(i) = DetScore(j) /\ PlaceBefore(f[i], f[j])

\* Detection i is the first one to reach box g as its one best box
FirstOn(i, g) ==
    /\ BestSet(i) = {g}
    /\ Reaches(i, g)
    /\ \A k \in 1..(i - 1) :
          DetImage(k) = DetImage(i) => ~(g \in BestSet(k) /\ Reaches(k, g))

C3_Outcome ==
    AllProcessed =>
        \A i, j \in 1..Len(cls_dets) :
            (/\ i < j
             /\ DetImage(i) = DetImage(j)
             /\ \E g \in BestSet(i) : FirstOn(i, g) /\ BestSet(j) = {g} /\ Reaches(j, g))
            => tp[i] = 1 /\ fp[i] = 0 /\ tp[j] = 0 /\ fp[j] = 1

\* C3: the class's detections are processed by descending score, equal
\* scores in the order of the input (image, then position in the image's
\* list); and of two detections of one image whose best box is the same
\* box, reached by both, the one processed first is TP and the other FP.
C3_ScoreOrder == C3_Order /\ C3_Outcome

\* Two detections of one image, the lower score first in the input, were
\* processed higher score first: that one took the box, the other is FP.
C3_Witness ==
    /\ AllProcessed
    /\ \E im \in 1..Len(det_boxes) :
          /\ CurLabel \in DOMAIN det_boxes[im]
          /\ LET dets == det_boxes[im][CurLabel]
             IN  /\ Len(dets) = 2
                 /\ dets[1][5] < dets[2][5]
                 /\ cls_dets = <<(<<im, dets[2]>>), (<<im, dets[1]>>)>>
    /\ \E g \in BestSet(1) : FirstOn(1, g) /\ BestSet(2) = {g} /\ Reaches(2, g)
    /\ tp = <<1, 0>>
    /\ fp = <<0, 1>>

\* ------------------------------------------------------------------------
\* Vocabulary of the properties about a whole call
\* ------------------------------------------------------------------------
\* The class universe: every label seen in some image's ground truth
Universe == GtLabelSet(gt_boxes)

\* The ground-truth boxes of class l, over all images
GtPlaces(l) ==
    UNION {{<<i, j>> : j \in 1..Len(gt_boxes[i][l])} :
              i \in {i \in 1..Len(gt_boxes) : l \in DOMAIN gt_boxes[i]}}

\* The detections of class l, over all images
DetPlaces(l) ==
    UNION {{<<i, j>> : j \in 1..Len(det_boxes[i][l])} :
              i \in {i \in 1..Len(det_boxes) : l \in DOMAIN det_boxes[i]}}

\* The classes whose AP is defined
Defined == {l \in Universe : GtPlaces(l) # {}}

Ended == pc \in {"returned", "raised"}

\* ------------------------------------------------------------------------
\* C4
\* ------------------------------------------------------------------------
\* C4 (as claimed): a call in which no class has a defined AP never ends in
\* the raw division by zero of the mean; the undefined mean is reported by
\* a guard of its own.
C4_NoRawDivision == (Defined = {} /\ pc = "raised") => exc # "ZeroDivisionError"

\* ------------------------------------------------------------------------
\* C5
\* ------------------------------------------------------------------------
\* C5 (as claimed): a call whose two sequences differ in length never
\* returns a result.
C5_MismatchFails == Len(det_boxes) # Len(gt_boxes) => pc # "returned"

\* ------------------------------------------------------------------------
\* C6
\* ------------------------------------------------------------------------
\* C6 (as claimed): a call with a method other than area and interp ends,
\* whatever the other arguments, in the ValueError of the unknown method.
C6_UnknownMethodError ==
    (~KnownMethod(method) /\ Ended) => (pc = "raised" /\ exc = "ValueError")

\* ------------------------------------------------------------------------
\* C7
\* ------------------------------------------------------------------------
\* Detection k's image has no ground-truth box of the class: an empty list
\* or no entry
NoGtInImage(k) ==
    \/ CurLabel \notin DOMAIN gt_boxes[DetImage(k)]
    \/ Len(gt_boxes[DetImage(k)][CurLabel]) = 0

\* C7 (as claimed): with sequences of equal length, a known method and a
\* class that has ground truth, the call does not fail, whether the images
\* without boxes of a class hold an empty list or no entry for it; every
\* processed detection of an image without boxes of its class is FP; and
\* the returned mapping has an entry for every class of the universe.
C7_ZeroGtImages ==
    /\ (Len(det_boxes) = Len(gt_boxes) /\ KnownMethod(method) /\ Defined # {}) => pc # "raised"
    /\ pc = "returned" => DOMAIN all_aps = Universe
    /\ pc = "match" =>
          \A k \in 1..(det_idx - 1) :
              (k <= Len(cls_dets) /\ NoGtInImage(k)) => fp[k] = 1 /\ tp[k] = 0

\* ------------------------------------------------------------------------
\* C8
\* ------------------------------------------------------------------------
RECURSIVE SumAPs(_)
SumAPs(S) ==
    IF S = {} THEN Zero
    ELSE LET l == CHOOSE x \in S : TRUE
         IN  FAdd(all_aps[l], SumAPs(S \ {l}))

\* The per-image dicts without the keys Z
Without(maps, Z) == [i \in 1..Len(maps) |-> [l \in (DOMAIN maps[i]) \ Z |-> maps[i][l]]]

\* C8: a call that returns maps the classes without ground truth to nan
\* and the others to a number; mean_ap is the sum of the others' APs over
\* their count; and the same call on the arguments without the classes
\* that have no ground truth returns the same mean_ap and the same APs.
C8_MeanOverDefined ==
    pc = "returned" =>
        /\ DOMAIN all_aps = Universe
        /\ \A l \in Universe : (all_aps[l] = NaN) <=> (l \notin Defined)
        /\ Defined # {}
        /\ mean_ap = FMul(SumAPs(Defined), <<1, Cardinality(Defined)>>)
        /\ LET Z == Universe \ Defined
               r == compute_map(Without(det_boxes, Z), Without(gt_boxes, Z), iou_threshold, method)
           IN  /\ r[1] = mean_ap
               /\ r[2] = [l \in Defined |-> all_aps[l]]

\* A returned call with a class that has detections and no ground truth,
\* next to a class of non-zero AP.
C8_Witness ==
    /\ pc = "returned"
    /\ \E z \in Universe : GtPlaces(z) = {} /\ DetPlaces(z) # {} /\ all_aps[z] = NaN
    /\ \E l \in Defined : all_aps[l] # Zero /\ mean_ap = all_aps[l]

\* ------------------------------------------------------------------------
\* C9
\* ------------------------------------------------------------------------
\* C9: under either method, the AP recorded for a class that has ground
\* truth and not one detection is 0.
C9_NoDetectionsZeroAP ==
    \A l \in DOMAIN all_aps : (GtPlaces(l) # {} /\ DetPlaces(l) = {}) => all_aps[l] = Zero

\* The 11-point method has recorded an AP for such a class.
C9_Witness ==
    /\ method = "interp"
    /\ \E l \in DOMAIN all_aps : GtPlaces(l) # {} /\ DetPlaces(l) = {} /\ all_aps[l] = Zero

\* ------------------------------------------------------------------------
\* C10
\* ------------------------------------------------------------------------
\* get_iou has been called on a box and itself
SelfCall == iou_args # <<>> /\ iou_args[1] = iou_args[2]

BoxArea(a) == (a[3] - a[1]) * (a[4] - a[2])

\* x = n/(d + e*1E-6) lies within 1E-6 of 1: that is n = d >= 1, as
\* n/(n + 1E-6) >= 1 - 1E-6 exactly when n >= 1 - 1E-6
NearOne(x) == x.n = x.d /\ x.n >= 1

\* C10 (as claimed): get_iou of any box with itself is 1.0 within
\* tolerance, boxes of zero width or zero height included.
C10_SelfIouIsOne == SelfCall => NearOne(iou_ret)

\* C10 (amended): for a box of positive width and height the intersection
\* with itself is its area, as is the union, and get_iou returns
\* area / (area + 1E-6), within 1E-6 of 1; for a box of zero (or negative)
\* width or height get_iou of the box with itself is 0.
C10_SelfIou ==
    SelfCall =>
        LET a == iou_args[1]
        IN  IF a[3] > a[1] /\ a[4] > a[2]
            THEN iou_ret = [n |-> BoxArea(a), d |-> BoxArea(a), e |-> 1] /\ NearOne(iou_ret)
            ELSE iou_ret.n = 0

\* get_iou has returned for a box of positive area and itself.
C10_Witness ==
    /\ SelfCall
    /\ BoxArea(iou_args[1]) > 0
    /\ iou_args[1][3] > iou_args[1][1]
    /\ NearOne(iou_ret)

\* ------------------------------------------------------------------------
\* C11
\* ------------------------------------------------------------------------
\* The lowest-indexed box of maximum IoU with detection k
FirstBest(k) == SetMin(BestSet(k))

C11_Step ==
    (/\ pc = "match"
     /\ det_idx <= Len(cls_dets)
     /\ DetImage(det_idx) <= Len(gt_boxes)
     /\ BestSet(det_idx) # {}
     /\ Reaches(det_idx, FirstBest(det_idx))) =>
    LET k == det_idx
        im == DetImage(k)
        g == FirstBest(k)
    IN  IF gt_matched[im][g]
        THEN fp'[k] = 1 /\ tp'[k] = 0 /\ gt_matched' = gt_matched
        ELSE fp'[k] = 0 /\ tp'[k] = 1 /\ gt_matched' = [gt_matched EXCEPT ![im][g] = TRUE]

\* Boxes g1 < g2 of detection k's image are the same box
Copies(k, g1, g2) ==
    /\ g1 \in 1..Len(ImGts(k))
    /\ g2 \in 1..Len(ImGts(k))
    /\ g1 < g2
    /\ ImGts(k)[g1] = ImGts(k)[g2]

C11_Inv ==
    /\ pc = "match" =>
          \A im \in 1..Len(gt_boxes) : \A g1, g2 \in 1..Len(gt_boxes[im][CurLabel]) :
              (g1 < g2 /\ gt_boxes[im][CurLabel][g1] = gt_boxes[im][CurLabel][g2])
              => ~gt_matched[im][g2]
    /\ AllProcessed =>
          \A i, j \in 1..Len(cls_dets) :
              (/\ i < j
               /\ DetImage(i) = DetImage(j)
               /\ \E g2 \in BestSet(i) \cap BestSet(j) :
                     /\ Copies(i, FirstBest(i), g2)
                     /\ FirstBest(j) = FirstBest(i)
                     /\ Reaches(i, g2)
                     /\ Reaches(j, g2)
               /\ \A k \in 1..(i - 1) :
                     DetImage(k) = DetImage(i) =>
                        ~(FirstBest(i) \in BestSet(k) /\ Reaches(k, FirstBest(i))))
              => /\ tp[i] = 1
                 /\ fp[i] = 0
                 /\ tp[j] = 0
                 /\ fp[j] = 1
                 /\ gt_matched[DetImage(i)][FirstBest(i)]

\* C11: among the ground-truth boxes that share the maximum IoU with a
\* detection the one of lowest index is the selected one: the detection is
\* TP and that box becomes matched if it is unmatched, FP if it is matched,
\* whatever the state of the other boxes of the same IoU. So the second
\* copy of a box listed twice in an image is never matched, and of two
\* detections that reach the twice-listed box as their best one the first
\* processed is TP on the first copy and the second is FP.
C11_LowestIndexOnTie == [](C11_Inv) /\ [][C11_Step]_vars

\* An image lists one box twice, two detections reach it: the first took
\* the first copy, the second is FP, the second copy is still unmatched.
C11_Witness ==
    /\ AllProcessed
    /\ Len(cls_dets) = 2
    /\ DetImage(1) = DetImage(2)
    /\ Copies(1, 1, 2)
    /\ BestSet(1) = {1, 2}
    /\ BestSet(2) = {1, 2}
    /\ Reaches(1, 1)
    /\ Reaches(2, 1)
    /\ tp = <<1, 0>>
    /\ fp = <<0, 1>>
    /\ gt_matched[DetImage(1)] = <<TRUE, FALSE>>

====
